---- MODULE Spec2Model ----
(***************************************************************************)
(* Interest-rate dashboard (src/app.py): a Streamlit script that is re-run *)
(* top to bottom on every user interaction.  The state is the CSV file,    *)
(* st.session_state (df, filtered_df, page), the values held by the        *)
(* sidebar widgets, and what the last run rendered.                        *)
(*                                                                         *)
(* Strings that the code inspects character by character (Description) are *)
(* tuples of one-character strings.  Floating-point numbers are fractions  *)
(* <<numerator, denominator>>; NaN is <<0, 0>>.  A data frame is a record  *)
(* [columns, rows]; a row subset of df (a filtered frame) is the set of    *)
(* the index labels it keeps, as pandas keeps the labels of df.            *)
(***************************************************************************)
EXTENDS Integers, Sequences, FiniteSets, TLC

VARIABLES csv, session_state, selected_rates, risk_levels, year_range,
          select_all, views, outcome

vars == <<csv, session_state, selected_rates, risk_levels, year_range,
          select_all, views, outcome>>

----------------------------------------------------------------------------
(* Bounds of the model *)

MaxRows == 3
MaxValue == 30

----------------------------------------------------------------------------
(* Strings *)

LowerCase == <<"a","b","c","d","e","f","g","h","i","j","k","l","m",
               "n","o","p","q","r","s","t","u","v","w","x","y","z">>
UpperCase == <<"A","B","C","D","E","F","G","H","I","J","K","L","M",
               "N","O","P","Q","R","S","T","U","V","W","X","Y","Z">>

TREASURY == <<"T","R","E","A","S","U","R","Y">>
BILL == <<"B","I","L","L">>

TREASURY_BILL_RATE ==
    <<"T","R","E","A","S","U","R","Y"," ","B","I","L","L"," ","R","A","T","E">>
ADVANCE_RATE_END_OF_PERIOD ==
    <<"A","D","V","A","N","C","E"," ","R","A","T","E"," ",
      "(","E","N","D"," ","O","F"," ","P","E","R","I","O","D",")">>
Bill_Discount_Rate ==
    <<"B","i","l","l"," ","D","i","s","c","o","u","n","t"," ","R","a","t","e">>

(* re.IGNORECASE compares characters after case folding *)
Fold(c) ==
    IF \E k \in 1..26 : LowerCase[k] = c
    THEN UpperCase[CHOOSE k \in 1..26 : LowerCase[k] = c]
    ELSE c

(* an occurrence of the literal pat starting at position i of s *)
MatchesAt(s, pat, i, ignore_case) ==
    \A j \in 1..Len(pat) :
        IF ignore_case THEN Fold(s[i + j - 1]) = Fold(pat[j])
        ELSE s[i + j - 1] = pat[j]

(* variant: the search without case folding *)
str_contains_case_sensitive(s) ==
    \E pat \in {TREASURY, BILL} :
        \E i \in 1..(Len(s) - Len(pat) + 1) : MatchesAt(s, pat, i, FALSE)

(* Series.str.contains("TREASURY|BILL", case=False) on one value: a regex  *)
(* search for either literal anywhere in the string                        *)
str_contains(s) ==
    \E pat \in {TREASURY, BILL} :
        \E i \in 1..(Len(s) - Len(pat) + 1) : MatchesAt(s, pat, i, TRUE)

----------------------------------------------------------------------------
(* Floating-point values as fractions *)

RECURSIVE Gcd(_, _)
Gcd(a, b) == IF b = 0 THEN a ELSE Gcd(b, a % b)

NaN == <<0, 0>>
Float(n) == <<n, 1>>
Ratio(p, q) == IF q = 0 THEN NaN ELSE <<p \div Gcd(p, q), q \div Gcd(p, q)>>
IsNaN(x) == x[2] = 0

----------------------------------------------------------------------------
(* The input file Interest_Rates.csv *)

(* Rows a file may hold.  SectorType is the row's value in the file's own  *)
(* 'Sector Type' column, read only when the file has that column.          *)
RowList ==
    << [Year |-> 1990, Description |-> TREASURY_BILL_RATE, Value |-> 9,
        SectorType |-> "Private"],
       [Year |-> 2008, Description |-> ADVANCE_RATE_END_OF_PERIOD, Value |-> 20,
        SectorType |-> "Private"],
       [Year |-> 2008, Description |-> TREASURY_BILL_RATE, Value |-> 10,
        SectorType |-> "Public"],
       [Year |-> 1985, Description |-> ADVANCE_RATE_END_OF_PERIOD, Value |-> 19,
        SectorType |-> "Public"],
       [Year |-> 1990, Description |-> Bill_Discount_Rate, Value |-> 25,
        SectorType |-> "Private"] >>

RowUniverse == { RowList[k] : k \in DOMAIN RowList }

BaseColumns == {"Year", "Description", "Value"}

(* Files of at most MaxRows rows, with or without a 'Sector Type' column.  *)
(* Nothing the script computes depends on the order of the rows, so the    *)
(* rows of a file are listed in the order of RowList.                      *)
RowChoices ==
    UNION { { c \in [1..n -> DOMAIN RowList] :
                \A i \in 1..(n - 1) : c[i] <= c[i + 1] } : n \in 0..MaxRows }

CsvFiles ==
    { [columns |-> cols, rows |-> [i \in DOMAIN c |-> RowList[c[i]]]] :
        cols \in {BaseColumns, BaseColumns \cup {"Sector Type"}},
        c \in RowChoices }

(* pd.read_csv: only the columns the file has *)
read_csv(file) ==
    [columns |-> file.columns,
     rows |-> [i \in DOMAIN file.rows |->
                 IF "Sector Type" \in file.columns
                 THEN file.rows[i]
                 ELSE [Year |-> file.rows[i].Year,
                       Description |-> file.rows[i].Description,
                       Value |-> file.rows[i].Value]]]

----------------------------------------------------------------------------
(* load_data *)

(* variant: the first threshold taken inclusive *)
classify_risk_low_inclusive(value) ==
    IF value <= 10 THEN "Low"
    ELSE IF value < 20 THEN "Medium"
    ELSE "High"

classify_risk(value) ==
    IF value < 10 THEN "Low"
    ELSE IF value < 20 THEN "Medium"
    ELSE "High"

(* variant: the match without case=False *)
sector_type_case_sensitive(description) ==
    IF str_contains_case_sensitive(description) THEN "Public" ELSE "Private"

(* np.where(df['Description'].str.contains(...), "Public", "Private") *)
sector_type(description) ==
    IF str_contains(description) THEN "Public" ELSE "Private"

load_data(file) ==
    LET raw == read_csv(file)
        with_risk == [i \in DOMAIN raw.rows |->
                        raw.rows[i] @@
                        ("RiskLevel" :> classify_risk(raw.rows[i].Value))]
    IN  IF "Sector Type" \notin raw.columns
        THEN [columns |-> raw.columns \cup {"Risk Level", "Sector Type"},
              rows |-> [i \in DOMAIN with_risk |->
                          with_risk[i] @@
                          ("SectorType" :>
                              sector_type(with_risk[i].Description))]]
        ELSE [columns |-> raw.columns \cup {"Risk Level"},
              rows |-> with_risk]

----------------------------------------------------------------------------
(* Frames *)

Index(d) == DOMAIN d.rows

unique_descriptions(d, I) == { d.rows[i].Description : i \in I }

SetMin(S) == CHOOSE m \in S : \A n \in S : m <= n
SetMax(S) == CHOOSE m \in S : \A n \in S : m >= n

year_min(d) == SetMin({ d.rows[i].Year : i \in Index(d) })
year_max(d) == SetMax({ d.rows[i].Year : i \in Index(d) })

RECURSIVE SumValue(_, _)
SumValue(d, I) ==
    IF I = {} THEN 0
    ELSE LET i == CHOOSE k \in I : TRUE
         IN  d.rows[i].Value + SumValue(d, I \ {i})

mean_value(d, I) == Ratio(SumValue(d, I), Cardinality(I))

----------------------------------------------------------------------------
(* Session state and sidebar widgets *)

Pages == {"About", "Dashboard", "Summary"}
Buttons == {"About", "Dashboard", "Summary Statistics"}
NoButton == "none"

RiskOptions == {"Low", "Medium", "High"}
DefaultRates == {TREASURY_BILL_RATE, ADVANCE_RATE_END_OF_PERIOD}
DefaultRiskLevels == {"Low", "Medium", "High"}
DefaultYearRange == <<1990, 2008>>

EmptySession == [k \in {} |-> {}]

(* 'x' not in st.session_state: set it; otherwise keep what the session has *)
init_session_state(ss, file) ==
    LET s1 == IF "df" \notin DOMAIN ss
              THEN ss @@ ("df" :> load_data(file)) ELSE ss
        s2 == IF "filtered_df" \notin DOMAIN s1
              THEN s1 @@ ("filtered_df" :> Index(s1.df)) ELSE s1
        s3 == IF "page" \notin DOMAIN s2
              THEN s2 @@ ("page" :> "Dashboard") ELSE s2
    IN  s3

(* variant: the page not kept from run to run, a run without a button     *)
(* press falls back to the Dashboard                                       *)
navigation_unkept(page, pressed) ==
    IF pressed = "About" THEN "About"
    ELSE IF pressed = "Summary Statistics" THEN "Summary"
    ELSE "Dashboard"

(* the three st.sidebar.button tests; a button is True only in the run its *)
(* click started                                                           *)
navigation(page, pressed) ==
    LET p1 == IF pressed = "About" THEN "About" ELSE page
        p2 == IF pressed = "Dashboard" THEN "Dashboard" ELSE p1
        p3 == IF pressed = "Summary Statistics" THEN "Summary" ELSE p2
    IN  p3

(* st.multiselect raises when a default value is not among the options *)
multiselect_accepts(options, default) == default \subseteq options

(* the default value of st.slider lies inside [min_value, max_value] *)
slider_accepts(min_value, max_value, value) ==
    /\ min_value <= value[1]
    /\ value[1] <= value[2]
    /\ value[2] <= max_value

(* the bounds of the slider once it is built: a default outside            *)
(* [min_value, max_value] widens them to hold it                           *)
slider_bounds(min_value, max_value, value) ==
    << IF value[1] < min_value THEN value[1] ELSE min_value,
       IF value[2] > max_value THEN value[2] ELSE max_value >>

(* variant: a non-empty explicit list wins over the toggle *)
effective_rates_explicit_first(toggle, explicit, rate_types) ==
    IF toggle /\ explicit = {} THEN rate_types ELSE explicit

(* the select-all toggle of the spec: engaged, it replaces the explicit    *)
(* multi-select value by every distinct Description of the dataset         *)
effective_rates(toggle, explicit, rate_types) ==
    IF toggle THEN rate_types ELSE explicit

----------------------------------------------------------------------------
(* Apply filters *)

(* variant: the upper year bound exclusive *)
filter_mask_exclusive_end(row, rates, risks, yr) ==
    /\ row.Description \in rates
    /\ row.RiskLevel \in risks
    /\ row.Year >= yr[1]
    /\ row.Year < yr[2]

(* the boolean mask of one row *)
filter_mask(row, rates, risks, yr) ==
    /\ row.Description \in rates
    /\ row.RiskLevel \in risks
    /\ row.Year >= yr[1]
    /\ row.Year <= yr[2]

(* variant: the mask applied to the stored filtered frame *)
apply_filters_of_stored(ss, rates, risks, yr) ==
    { i \in ss.filtered_df : filter_mask(ss.df.rows[i], rates, risks, yr) }

(* filtered_df = df[mask], df being st.session_state.df *)
apply_filters(ss, rates, risks, yr) ==
    { i \in Index(ss.df) : filter_mask(ss.df.rows[i], rates, risks, yr) }

----------------------------------------------------------------------------
(* Aggregates of the filtered frame *)

year_risk_keys(d, I) == { <<d.rows[i].Year, d.rows[i].RiskLevel>> : i \in I }

group_rows(d, I, k) ==
    { i \in I : d.rows[i].Year = k[1] /\ d.rows[i].RiskLevel = k[2] }

(* groupby(['Year', 'Risk Level']).size(): one entry per observed pair *)
group_size(d, I) ==
    [k \in year_risk_keys(d, I) |-> Float(Cardinality(group_rows(d, I, k)))]

(* the mean Value of each observed (Year, Risk Level) pair *)
group_mean(d, I) ==
    [k \in year_risk_keys(d, I) |-> mean_value(d, group_rows(d, I, k))]

(* unstack / pivot: rows Year, columns Risk Level, NaN where a pair has no *)
(* entry                                                                   *)
unstack(g) ==
    [y \in { k[1] : k \in DOMAIN g } |->
        [r \in { k[2] : k \in DOMAIN g } |->
            IF <<y, r>> \in DOMAIN g THEN g[<<y, r>>] ELSE NaN]]

fillna(m, v) ==
    [y \in DOMAIN m |->
        [r \in DOMAIN m[y] |-> IF IsNaN(m[y][r]) THEN Float(v) ELSE m[y][r]]]

(* variant: without fillna(0) *)
yearly_risk_unfilled(d, I) == unstack(group_size(d, I))

(* filtered_df.groupby(['Year', 'Risk Level']).size().unstack().fillna(0) *)
yearly_risk(d, I) == fillna(unstack(group_size(d, I)), 0)

(* variant: only the observed pairs, not unstacked to a rectangle *)
heatmap_data_sparse(d, I) ==
    [y \in { k[1] : k \in year_risk_keys(d, I) } |->
        [r \in { k[2] : k \in { q \in year_risk_keys(d, I) : q[1] = y } } |->
            group_mean(d, I)[<<y, r>>]]]

(* filtered_df.pivot_table(index='Year', columns='Risk Level',             *)
(*                         values='Value', aggfunc=np.mean)                *)
heatmap_data(d, I) == unstack(group_mean(d, I))

(* filtered_df['Risk Level'].value_counts() *)
risk_counts(d, I) ==
    [r \in { d.rows[i].RiskLevel : i \in I } |->
        Cardinality({ i \in I : d.rows[i].RiskLevel = r })]

----------------------------------------------------------------------------
(* Page routing: what a run renders *)

Warning == [kind |-> "warning"]

DashboardViews ==
    {"Metrics", "Scatter Plot", "Pie Chart", "Area Chart", "Histogram",
     "Heatmap"}

(* the four metrics; the standard deviation (a square root) is not kept *)
metrics_row(d, I) ==
    IF I # {}
    THEN [kind |-> "metrics",
          avg_rate |-> mean_value(d, I),
          max_rate |-> SetMax({ d.rows[i].Value : i \in I }),
          min_rate |-> SetMin({ d.rows[i].Value : i \in I })]
    ELSE Warning

scatter_tab(d, I) ==
    IF I # {} THEN [kind |-> "chart", data |-> I] ELSE Warning

pie_tab(d, I) ==
    IF I # {} THEN [kind |-> "chart", data |-> risk_counts(d, I)] ELSE Warning

area_tab(d, I) ==
    IF I # {} THEN [kind |-> "chart", data |-> yearly_risk(d, I)] ELSE Warning

(* the rate-type selectbox offers the Descriptions of the filtered frame;  *)
(* its value and the bin count stay inside the tab                         *)
histogram_tab(d, I) ==
    IF I # {}
    THEN [kind |-> "chart", data |-> unique_descriptions(d, I)]
    ELSE Warning

(* variant: the tab without its emptiness test *)
heatmap_tab_unguarded(d, I) == [kind |-> "chart", data |-> heatmap_data(d, I)]

heatmap_tab(d, I) ==
    IF I # {} THEN [kind |-> "chart", data |-> heatmap_data(d, I)] ELSE Warning

(* the describe() and groupby tables; kept: the mean Value per Risk Level *)
summary_page(d, I) ==
    IF I # {}
    THEN [kind |-> "tables",
          data |-> [r \in { d.rows[i].RiskLevel : i \in I } |->
                      mean_value(d, { i \in I : d.rows[i].RiskLevel = r })]]
    ELSE Warning

render(page, d, I) ==
    IF page = "About" THEN ("About" :> [kind |-> "dataframe"])
    ELSE IF page = "Dashboard"
    THEN ("Metrics" :> metrics_row(d, I)) @@
         ("Scatter Plot" :> scatter_tab(d, I)) @@
         ("Pie Chart" :> pie_tab(d, I)) @@
         ("Area Chart" :> area_tab(d, I)) @@
         ("Histogram" :> histogram_tab(d, I)) @@
         ("Heatmap" :> heatmap_tab(d, I))
    ELSE IF page = "Summary" THEN ("Summary" :> summary_page(d, I))
    ELSE EmptySession

----------------------------------------------------------------------------
(* One run of the script *)

NothingRendered == [k \in {} |-> Warning]
Unset == {}
NoRange == <<>>

(* The top of the script, down to the last sidebar widget.                 *)
(* ss: st.session_state before the run; pressed: the button whose click    *)
(* started the run, or NoButton; w: the values the sidebar widgets hold    *)
(* rejects: st.slider raises on a default outside its bounds instead of   *)
(* widening them; a session may meet either behaviour                      *)
sidebar(file, ss, pressed, w, rejects) ==
    LET s1 == init_session_state(ss, file)
        df == s1.df
        s2 == [s1 EXCEPT !.page = navigation(s1.page, pressed)]
        rate_types == unique_descriptions(df, Index(df))
    IN  IF ~multiselect_accepts(rate_types, DefaultRates)
        THEN [session_state |-> s2, selected_rates |-> Unset,
              risk_levels |-> Unset, year_range |-> NoRange,
              outcome |-> "multiselect raised"]
        ELSE IF /\ rejects
                /\ ~slider_accepts(year_min(df), year_max(df), DefaultYearRange)
        THEN [session_state |-> s2, selected_rates |-> w.selected_rates,
              risk_levels |-> w.risk_levels, year_range |-> NoRange,
              outcome |-> "slider raised"]
        ELSE [session_state |-> s2, selected_rates |-> w.selected_rates,
              risk_levels |-> w.risk_levels, year_range |-> w.year_range,
              outcome |-> "complete"]

(* The rest of the script: apply the filters, store the filtered frame,    *)
(* route to the page.  Nothing of it runs when a widget has raised.        *)
page_body(sb, toggle) ==
    IF sb.outcome # "complete"
    THEN [session_state |-> sb.session_state, views |-> NothingRendered]
    ELSE LET df == sb.session_state.df
             filtered_df ==
                 apply_filters(sb.session_state,
                     effective_rates(toggle, sb.selected_rates,
                                     unique_descriptions(df, Index(df))),
                     sb.risk_levels, sb.year_range)
             s3 == [sb.session_state EXCEPT !.filtered_df = filtered_df]
         IN  [session_state |-> s3,
              views |-> render(s3.page, df, filtered_df)]

DefaultWidgets ==
    [selected_rates |-> DefaultRates, risk_levels |-> DefaultRiskLevels,
     year_range |-> DefaultYearRange, select_all |-> FALSE]

(* a widget keeps its value from run to run while every run renders it;    *)
(* one that the last run did not reach starts from its default again       *)
Widgets ==
    [selected_rates |->
        IF outcome = "multiselect raised" THEN DefaultRates ELSE selected_rates,
     risk_levels |->
        IF outcome = "multiselect raised" THEN DefaultRiskLevels
        ELSE risk_levels,
     year_range |->
        IF outcome = "complete" THEN year_range ELSE DefaultYearRange,
     select_all |-> select_all]

Rerun(pressed, w) ==
    \E sb \in {sidebar(csv, session_state, pressed, w,
                       outcome = "slider raised")} :
        /\ selected_rates' = sb.selected_rates
        /\ risk_levels' = sb.risk_levels
        /\ year_range' = sb.year_range
        /\ outcome' = sb.outcome
        /\ select_all' = w.select_all
        /\ csv' = csv
        /\ \E r \in {page_body(sb, w.select_all)} :
              /\ session_state' = r.session_state
              /\ views' = r.views

(* a new session: the file as it is, an empty session state, every widget  *)
(* at its default, no button pressed                                       *)
Init ==
    \E file \in CsvFiles, rejects \in BOOLEAN :
        \E sb \in {sidebar(file, EmptySession, NoButton, DefaultWidgets,
                           rejects)} :
            /\ csv = file
            /\ selected_rates = sb.selected_rates
            /\ risk_levels = sb.risk_levels
            /\ year_range = sb.year_range
            /\ outcome = sb.outcome
            /\ select_all = FALSE
            /\ \E r \in {page_body(sb, FALSE)} :
                  /\ session_state = r.session_state
                  /\ views = r.views

(* the years the range slider can be dragged to *)
YearChoices ==
    { row.Year : row \in RowUniverse }
    \cup {DefaultYearRange[1], DefaultYearRange[2]}

PressButton(b) == Rerun(b, Widgets)

ChangeRateTypes(S) ==
    /\ outcome # "multiselect raised"
    /\ S # selected_rates
    /\ Rerun(NoButton, [Widgets EXCEPT !.selected_rates = S])

ChangeRiskLevels(S) ==
    /\ outcome # "multiselect raised"
    /\ S # risk_levels
    /\ Rerun(NoButton, [Widgets EXCEPT !.risk_levels = S])

ChangeYearRange(lo, hi) ==
    /\ outcome = "complete"
    /\ slider_bounds(year_min(session_state.df), year_max(session_state.df),
                     DefaultYearRange)[1] <= lo
    /\ lo <= hi
    /\ hi <= slider_bounds(year_min(session_state.df),
                           year_max(session_state.df), DefaultYearRange)[2]
    /\ <<lo, hi>> # year_range
    /\ Rerun(NoButton, [Widgets EXCEPT !.year_range = <<lo, hi>>])

(* the selectbox and the bin slider of the histogram tab *)
ChangeHistogramControls ==
    /\ outcome = "complete"
    /\ session_state.page = "Dashboard"
    /\ session_state.filtered_df # {}
    /\ Rerun(NoButton, Widgets)

ToggleSelectAll ==
    /\ outcome # "multiselect raised"
    /\ Rerun(NoButton, [Widgets EXCEPT !.select_all = ~select_all])

Next ==
    \/ \E b \in Buttons : PressButton(b)
    \/ \E S \in SUBSET unique_descriptions(session_state.df,
                                           Index(session_state.df)) :
          ChangeRateTypes(S)
    \/ \E S \in SUBSET RiskOptions : ChangeRiskLevels(S)
    \/ \E lo \in YearChoices, hi \in YearChoices : ChangeYearRange(lo, hi)
    \/ ChangeHistogramControls

Spec == Init /\ [][Next]_vars

NextWithToggle == Next \/ ToggleSelectAll

SpecWithToggle == Init /\ [][NextWithToggle]_vars

----------------------------------------------------------------------------
(* Properties *)

Df == session_state.df
FilteredDf == session_state.filtered_df
Page == session_state.page
RateTypes == unique_descriptions(Df, Index(Df))
Completed == outcome = "complete"

InYearRange(row) == year_range[1] <= row.Year /\ row.Year <= year_range[2]

(* C1, as amended: after a complete run, a record is in the filtered view  *)
(* iff its Description is among the selected rate types AND its Risk Level *)
(* is among the selected risk levels AND its Year lies in the year range,  *)
(* both bounds inclusive; an empty risk-level selection excludes every     *)
(* record.                                                                 *)
C1_FilterRule ==
    Completed =>
        \A i \in Index(Df) :
            i \in FilteredDf <=>
                /\ Df.rows[i].Description \in selected_rates
                /\ Df.rows[i].RiskLevel \in risk_levels
                /\ InYearRange(Df.rows[i])

(* C1 as stated: ... AND (riskLevels is empty OR RiskLevel in riskLevels)  *)
(* ..., so that a selection with no risk level excludes no record.         *)
C1_AsStated ==
    Completed =>
        \A i \in Index(Df) :
            i \in FilteredDf <=>
                /\ Df.rows[i].Description \in selected_rates
                /\ (risk_levels = {} \/ Df.rows[i].RiskLevel \in risk_levels)
                /\ InYearRange(Df.rows[i])

(* no risk level chosen, a record matches the other two conditions, and    *)
(* the view is empty                                                       *)
C1_Witness ==
    /\ Completed
    /\ risk_levels = {}
    /\ \E i \in Index(Df) :
          Df.rows[i].Description \in selected_rates /\ InYearRange(Df.rows[i])
    /\ FilteredDf = {}

(* C2: with the select-all toggle engaged, the filtered view holds every   *)
(* record that passes the risk-level and year conditions, whatever its     *)
(* Description and whatever the explicit multi-select holds; filtering     *)
(* with explicit list X equals filtering with the empty explicit list.     *)
C2_SelectAllOverrides ==
    (Completed /\ select_all) =>
        /\ FilteredDf =
              { i \in Index(Df) :
                  Df.rows[i].RiskLevel \in risk_levels
                  /\ InYearRange(Df.rows[i]) }
        /\ \A X \in SUBSET RateTypes :
              apply_filters(session_state,
                            effective_rates(TRUE, X, RateTypes),
                            risk_levels, year_range)
              = apply_filters(session_state,
                              effective_rates(TRUE, {}, RateTypes),
                              risk_levels, year_range)

(* toggle engaged over a partial explicit selection, and a record of an    *)
(* unselected rate type is in the view                                     *)
C2_Witness ==
    /\ Completed
    /\ select_all
    /\ selected_rates # {}
    /\ \E i \in FilteredDf : Df.rows[i].Description \notin selected_rates

(* C3: classify_risk(v) is exactly one of Low, Medium, High: Low iff       *)
(* v < 10, Medium iff 10 <= v < 20, High iff v >= 20; every loaded record  *)
(* carries the Risk Level classify_risk gives its Value.                   *)
RiskRule(v, r) ==
    /\ r \in {"Low", "Medium", "High"}
    /\ (r = "Low" <=> v < 10)
    /\ (r = "Medium" <=> (10 <= v /\ v < 20))
    /\ (r = "High" <=> v >= 20)

C4_EmptyViewWarns ==
    /\ (Completed /\ selected_rates = {}) => FilteredDf = {}
    /\ (Completed /\ FilteredDf = {}) =>
          /\ Page = "Dashboard" =>
                /\ DOMAIN views = DashboardViews
                /\ \A v \in DashboardViews : views[v] = Warning
          /\ Page = "Summary" =>
                /\ DOMAIN views = {"Summary"}
                /\ views["Summary"] = Warning

(* no rate type selected, on the Dashboard *)
C4_Witness ==
    /\ Completed
    /\ selected_rates = {}
    /\ FilteredDf = {}
    /\ Page = "Dashboard"
    /\ views["Heatmap"] = Warning

(* C5: the page is always one of About, Dashboard, Summary, initially      *)
(* Dashboard; pressing a navigation button sets the page to that button's  *)
(* page from any page (the press is always possible: no step that presses *)
(* a button ends on another page); the page changes only in a step that    *)
(* is a button press, so an interaction with another                       *)
(* widget leaves it unchanged; a change of page leaves the selected rate   *)
(* types, risk levels, year range and the filtered view unchanged.         *)
PageOfButton(b) ==
    IF b = "About" THEN "About"
    ELSE IF b = "Dashboard" THEN "Dashboard"
    ELSE "Summary"

C5_Step ==
    /\ \A b \in Buttons :
          session_state'.page # PageOfButton(b) => ~PressButton(b)
    /\ session_state'.page # Page =>
          /\ \E b \in Buttons : PressButton(b)
          /\ selected_rates' = selected_rates
          /\ risk_levels' = risk_levels
          /\ year_range' = year_range
          /\ session_state'.filtered_df = FilteredDf

C5_Navigation ==
    /\ Page = "Dashboard"
    /\ [](/\ Page \in {"About", "Dashboard", "Summary"}
          /\ \A b \in Buttons : ENABLED PressButton(b))
    /\ [][C5_Step]_vars

(* on the About page with a selection that is not the default one *)
C5_Witness ==
    /\ Completed
    /\ Page = "About"
    /\ selected_rates # DefaultRates
    /\ risk_levels # DefaultRiskLevels
    /\ year_range # DefaultYearRange

(* C6: whenever the slider has a value, the initial (1990, 2008) included, *)
(* datasetMinYear <= year_range.min <= year_range.max <= datasetMaxYear.   *)
C6_YearRangeBounds ==
    /\ Completed => year_range # NoRange
    /\ year_range # NoRange =>
          /\ Len(year_range) = 2
          /\ \E i \in Index(Df) : Df.rows[i].Year <= year_range[1]
          /\ year_range[1] <= year_range[2]
          /\ \E i \in Index(Df) : year_range[2] <= Df.rows[i].Year

(* C7: the loaded dataset is the one load_data made of the file and never *)
(* changes; after every complete run the stored filtered view is the       *)
(* filter of that dataset by the current selection alone, whatever was     *)
(* selected or stored before and whatever the page.                        *)
C7_ViewIsFunctionOfSelection ==
    \E loaded \in {load_data(csv)} :
        /\ Df = loaded
        /\ Completed =>
              FilteredDf =
                  { i \in DOMAIN csv.rows :
                      /\ csv.rows[i].Description \in selected_rates
                      /\ loaded.rows[i].RiskLevel \in risk_levels
                      /\ year_range[1] <= csv.rows[i].Year
                      /\ csv.rows[i].Year <= year_range[2] }

(* away from the Dashboard, every widget changed, the view neither empty   *)
(* nor the whole dataset                                                   *)
C7_Witness ==
    /\ Completed
    /\ Page # "Dashboard"
    /\ selected_rates # DefaultRates
    /\ risk_levels # DefaultRiskLevels
    /\ year_range # DefaultYearRange
    /\ FilteredDf # {}
    /\ FilteredDf # Index(Df)

ObservedYears == { Df.rows[i].Year : i \in FilteredDf }
ObservedRisks == { Df.rows[i].RiskLevel : i \in FilteredDf }
RecordsOf(y, r) ==
    { i \in FilteredDf : Df.rows[i].Year = y /\ Df.rows[i].RiskLevel = r }
ChartsShown == Completed /\ Page = "Dashboard" /\ FilteredDf # {}

(* C8, as amended: the heatmap pivot is rectangular over the observed      *)
(* keys: every observed Year has an entry for every observed Risk Level; a *)
(* cell with records holds their mean Value, and a cell with no records    *)
(* holds NaN (the missing-value marker), not zero.                         *)
C8_HeatmapRectangular ==
    ChartsShown =>
        LET m == views["Heatmap"].data
        IN  /\ DOMAIN m = ObservedYears
            /\ \A y \in ObservedYears :
                  /\ DOMAIN m[y] = ObservedRisks
                  /\ \A r \in ObservedRisks :
                        IF RecordsOf(y, r) = {}
                        THEN m[y][r] = NaN
                        ELSE /\ m[y][r][2] > 0
                             /\ m[y][r][1] * Cardinality(RecordsOf(y, r))
                                = SumValue(Df, RecordsOf(y, r)) * m[y][r][2]

(* C8 as stated: ... a cell with no records holds zero. *)
C8_AsStated ==
    ChartsShown =>
        LET m == views["Heatmap"].data
        IN  /\ DOMAIN m = ObservedYears
            /\ \A y \in ObservedYears :
                  /\ DOMAIN m[y] = ObservedRisks
                  /\ \A r \in ObservedRisks :
                        RecordsOf(y, r) = {} => m[y][r] = Float(0)

(* a heatmap with a cell that has no records *)
C8_Witness ==
    /\ ChartsShown
    /\ \E y \in ObservedYears, r \in ObservedRisks :
          RecordsOf(y, r) = {} /\ IsNaN(views["Heatmap"].data[y][r])
    /\ \E y \in ObservedYears, r \in ObservedRisks :
          Cardinality(RecordsOf(y, r)) > 1

RECURSIVE SumOver(_, _)
SumOver(f, S) ==
    IF S = {} THEN 0
    ELSE LET x == CHOOSE e \in S : TRUE
         IN  f[x] + SumOver(f, S \ {x})

(* C9: the yearly risk count matrix holds, for every observed Year and     *)
(* every observed Risk Level, the number of filtered records of that pair, *)
(* zero where the pair has none, and its cells sum to the number of        *)
(* records in the filtered view.                                           *)
C9_YearlyRiskCounts ==
    ChartsShown =>
        LET m == views["Area Chart"].data
            row_total == [y \in DOMAIN m |->
                            SumOver([r \in DOMAIN m[y] |-> m[y][r][1]],
                                    DOMAIN m[y])]
        IN  /\ DOMAIN m = ObservedYears
            /\ \A y \in ObservedYears :
                  /\ DOMAIN m[y] = ObservedRisks
                  /\ \A r \in ObservedRisks :
                        m[y][r] = Float(Cardinality(RecordsOf(y, r)))
            /\ SumOver(row_total, DOMAIN m) = Cardinality(FilteredDf)

(* a count matrix with a zero cell and a cell counting two records *)
C9_Witness ==
    /\ ChartsShown
    /\ \E y \in ObservedYears, r \in ObservedRisks :
          RecordsOf(y, r) = {} /\ views["Area Chart"].data[y][r] = Float(0)
    /\ \E y \in ObservedYears, r \in ObservedRisks :
          views["Area Chart"].data[y][r] = Float(2)

ContainsIgnoringCase(s, word) ==
    \E i \in 1..(Len(s) - Len(word) + 1) :
        \A j \in 1..Len(word) : Fold(s[i + j - 1]) = word[j]

MentionsTreasuryOrBill(s) ==
    ContainsIgnoringCase(s, TREASURY) \/ ContainsIgnoringCase(s, BILL)

SectorRule(row) ==
    IF MentionsTreasuryOrBill(row.Description)
    THEN row.SectorType = "Public"
    ELSE row.SectorType = "Private"

(* C10, as amended: when the source file has no Sector Type column, every  *)
(* loaded record's Sector Type is Public iff its Description contains      *)
(* "TREASURY" or "BILL" ignoring case, and Private otherwise; when the     *)
(* file already has a Sector Type column, load_data keeps the file's       *)
(* values.                                                                 *)
C10_SectorType ==
    /\ "Sector Type" \in Df.columns
    /\ IF "Sector Type" \notin csv.columns
       THEN \A i \in Index(Df) : SectorRule(Df.rows[i])
       ELSE \A i \in Index(Df) : Df.rows[i].SectorType = csv.rows[i].SectorType

(* C10 as stated: ... a function of Description only, whatever columns the *)
(* source file already has.                                                *)
C10_AsStated ==
    \A i \in Index(Df) : SectorRule(Df.rows[i])

(* a file without the column: a mixed-case "Bill" is Public, an advance    *)
(* rate is Private                                                         *)
C10_Witness ==
    /\ "Sector Type" \notin csv.columns
    /\ \E i \in Index(Df) :
          /\ Df.rows[i].Description = Bill_Discount_Rate
          /\ Df.rows[i].SectorType = "Public"
    /\ \E i \in Index(Df) :
          /\ Df.rows[i].Description = ADVANCE_RATE_END_OF_PERIOD
          /\ Df.rows[i].SectorType = "Private"

====
